---- MODULE Spec2Model ----
(***************************************************************************)
(* Model of package output (src/output.go): the response envelope          *)
(* (Payload), the explicit dispatcher Send, the shorthand entry points     *)
(* Success / Error and their wrappers, and the process-wide debug toggle.  *)
(*                                                                         *)
(* Go strings are modelled as sequences of one-character strings, so that  *)
(* strings.TrimSpace and fmt.Sprintf are computed and not assumed.         *)
(* The http.ResponseWriter of a request is modelled by the sequence of     *)
(* calls made on it.                                                       *)
(***************************************************************************)
EXTENDS Integers, Sequences, FiniteSets, TLC

VARIABLES
    debug,   \* var debug (output.go:201)
    w,       \* the calls made on the http.ResponseWriter of the current request
    err,     \* the error returned by the entry point that served the request
    logs,    \* the lines that entry point handed to log.Println
    call     \* the entry point that served the request, with its arguments

vars == <<debug, w, err, logs, call>>

----------------------------------------------------------------------------
(* Bounds of the model. *)

\* time.Now() yields one of the instants 0..MaxClock (in milliseconds)
MaxClock == 1
\* the int64 ids handed to InsertOK / ErrorWithID range over 0..MaxId
MaxId == 1

----------------------------------------------------------------------------
(* Program constants. *)

StatusContinue == 100
StatusOK == 200
StatusInternalServerError == 500

msgTypeError == <<"e","r","r","o","r">>
msgTypeInsertOK == <<"i","n","s","e","r","t","O","K">>
msgTypeUpdateOK == <<"u","p","d","a","t","e","O","K">>
msgTypeDataFound == <<"d","a","t","a","F","o","u","n","d">>

\* errors.New(text): an error value is modelled by the text its Error() returns
errInputInvalid ==
    [text |-> <<"i","n","p","u","t"," ","v","a","l","i","d","a","t","i","o","n",
                " ","e","r","r","o","r">>]
errAlreadyExists ==
    [text |-> <<"a","l","r","e","a","d","y"," ","e","x","i","s","t","s">>]

\* the values of the returned error
NoErr == "nil"
ErrInvalidResponseCode == "output: invalid HTTP response code"
\* the *json.UnsupportedTypeError that json.Marshal returns
MarshalErr == "json: unsupported type"

ContentTypeKey == "Content-Type"
ContentTypeJSON == "application/json; charset=UTF-8"

----------------------------------------------------------------------------
(* Values of Payload.Data (interface{}). *)

DataNil == [kind |-> "nil", v |-> 0]
DataInt64(n) == [kind |-> "int64", v |-> n]
\* a map[string]string such as {"key": "value"}
DataMap == [kind |-> "map", v |-> 0]
\* a channel: a value encoding/json cannot serialize
DataChan == [kind |-> "chan", v |-> 0]

\* ErrorPayload{}
EmptyErrorPayload == [Error |-> <<>>, Message |-> <<>>]

----------------------------------------------------------------------------
(* Library functions the package calls, computed on character sequences. *)

\* unicode.IsSpace on the characters the model uses
IsSpace(c) == c \in {" ", "\t", "\n", "\r", "\f"}

RECURSIVE TrimLeft(_)
TrimLeft(s) ==
    IF s = <<>> THEN <<>>
    ELSE IF IsSpace(Head(s)) THEN TrimLeft(Tail(s)) ELSE s

RECURSIVE TrimRight(_)
TrimRight(s) ==
    IF s = <<>> THEN <<>>
    ELSE IF IsSpace(s[Len(s)]) THEN TrimRight(SubSeq(s, 1, Len(s) - 1)) ELSE s

\* strings.TrimSpace
TrimSpace(s) == TrimRight(TrimLeft(s))

DigitChars == <<"0","1","2","3","4","5","6","7","8","9">>

\* fmt's %d verb
RECURSIVE Itoa(_)
Itoa(n) ==
    IF n < 0 THEN <<"-">> \o Itoa(0 - n)
    ELSE IF n < 10 THEN <<DigitChars[n + 1]>>
    ELSE Itoa(n \div 10) \o <<DigitChars[(n % 10) + 1]>>

\* http.StatusText: the reason phrase of a registered code, "" for any other
StatusText(code) ==
    CASE code = 100 -> <<"C","o","n","t","i","n","u","e">>
      [] code = 200 -> <<"O","K">>
      [] code = 404 -> <<"N","o","t"," ","F","o","u","n","d">>
      [] code = 500 -> <<"I","n","t","e","r","n","a","l"," ","S","e","r","v","e","r",
                         " ","E","r","r","o","r">>
      [] OTHER -> <<>>

\* the %03d of the milliseconds in the layout "2006-01-02T15:04:05.000"
Pad3(n) ==
    IF n < 10 THEN <<"0","0">> \o Itoa(n)
    ELSE IF n < 100 THEN <<"0">> \o Itoa(n)
    ELSE Itoa(n)

\* time.Now().UTC().Format("2006-01-02T15:04:05.000") + "Z", where the clock
\* stands `now` milliseconds after 2006-01-02 15:04:05 UTC
FormatTime(now) ==
    <<"2","0","0","6","-","0","1","-","0","2","T","1","5",":","0","4",":","0","5",".">>
        \o Pad3(now % 1000) \o <<"Z">>

----------------------------------------------------------------------------
(* encoding/json on a Payload. *)

\* whether json.Marshal can encode the value held by Data
Serializable(data) == data.kind # "chan"

\* the JSON value of Data
JSONOfData(data) ==
    CASE data.kind = "int64" -> [json |-> "number", v |-> data.v]
      [] data.kind = "map" -> [json |-> "object", v |-> data.v]
      [] OTHER -> [json |-> "null", v |-> 0]

\* ErrorPayload: both fields are strings tagged omitempty
JSONOfErrorPayload(ep) ==
    (IF ep.Error = <<>> THEN <<>> ELSE <<<<"Error", ep.Error>>>>)
        \o (IF ep.Message = <<>> THEN <<>> ELSE <<<<"Message", ep.Message>>>>)

\* The JSON object of a Payload, as the sequence of its members in field
\* order.  Data is an interface tagged omitempty: it is left out when nil.
\* ErrorData is a struct: omitempty never leaves a struct out.
JSONOfPayload(p) ==
    <<<<"OK", p.OK>>, <<"Type", p.Type>>>>
        \o (IF p.Data.kind = "nil" THEN <<>> ELSE <<<<"Data", JSONOfData(p.Data)>>>>)
        \o <<<<"ErrorData", JSONOfErrorPayload(p.ErrorData)>>, <<"Datetime", p.Datetime>>>>

\* json.Marshal(p): the bytes (no bytes on failure) and the error
Marshal(p) ==
    IF Serializable(p.Data)
    THEN [j |-> <<JSONOfPayload(p)>>, err |-> NoErr]
    ELSE [j |-> <<>>, err |-> MarshalErr]

----------------------------------------------------------------------------
(* The calls an entry point makes on the http.ResponseWriter. *)

\* w.WriteHeader(code)
WriteHeaderCall(code) ==
    [method |-> "WriteHeader", code |-> code, key |-> "", value |-> "", body |-> <<>>]

\* w.Header().Set(key, value)
HeaderSetCall(key, value) ==
    [method |-> "Header.Set", code |-> 0, key |-> key, value |-> value, body |-> <<>>]

\* w.Write(j)
WriteCall(j) ==
    [method |-> "Write", code |-> 0, key |-> "", value |-> "", body |-> j]

----------------------------------------------------------------------------
(* Payload.send and buildAndSend. *)

\* mutant: the error of json.Marshal is dropped
sendSwallowsErr(p, rw, responseCode) ==
    [w |-> rw \o <<WriteHeaderCall(responseCode),
                   HeaderSetCall(ContentTypeKey, ContentTypeJSON),
                   WriteCall(Marshal(p).j)>>,
     err |-> NoErr]

\* func (p *Payload) send: the status code, then the header, then the body;
\* the error of json.Marshal is returned, and its bytes are written either way
send(p, rw, responseCode) ==
    [w |-> rw \o <<WriteHeaderCall(responseCode),
                   HeaderSetCall(ContentTypeKey, ContentTypeJSON),
                   WriteCall(Marshal(p).j)>>,
     err |-> Marshal(p).err]

\* mutant: the response code handed down is always 200
buildAndSendAlways200(ok, msgType, msgData, errData, rw, responseCode, now) ==
    send([OK |-> ok, Type |-> msgType, Data |-> msgData, ErrorData |-> errData,
          Datetime |-> FormatTime(now)], rw, StatusOK)

buildAndSend(ok, msgType, msgData, errData, rw, responseCode, now) ==
    send([OK |-> ok, Type |-> msgType, Data |-> msgData, ErrorData |-> errData,
          Datetime |-> FormatTime(now)], rw, responseCode)

----------------------------------------------------------------------------
(* Send: the validation/defaulting pass and the dispatch. *)

\* strings.TrimSpace(s) == ""
Blank(s) == TrimSpace(s) = <<>>

\* mutant: the timestamp is stamped whether or not the caller gave one
StampDatetimeAlways(p, now) == [p EXCEPT !.Datetime = FormatTime(now)]

\* output.go:156-158
StampDatetime(p, now) ==
    IF Blank(p.Datetime) THEN [p EXCEPT !.Datetime = FormatTime(now)] ELSE p

\* mutant: OK is left as the caller set it
ForceOKNever(p) == p

\* output.go:162-164
ForceOK(p) ==
    IF p.ErrorData # EmptyErrorPayload THEN [p EXCEPT !.OK = FALSE] ELSE p

\* mutant: the bound is 0, so 0..99 pass
InvalidResponseCodeBelowZero(responseCode) == responseCode < 0

\* output.go:167
InvalidResponseCode(responseCode) == responseCode < StatusContinue

\* mutant: the code and the reason phrase are joined by a blank
DefaultTypeNoHyphen(p, responseCode) ==
    IF Blank(p.Type)
    THEN [p EXCEPT !.Type = Itoa(responseCode) \o <<" ">> \o StatusText(responseCode)]
    ELSE p

\* mutant: a Type the caller gave is stored trimmed
DefaultTypeTrims(p, responseCode) ==
    IF Blank(p.Type)
    THEN [p EXCEPT !.Type = Itoa(responseCode) \o <<"-">> \o StatusText(responseCode)]
    ELSE [p EXCEPT !.Type = TrimSpace(p.Type)]

\* output.go:182-183: fmt.Sprintf("%d-%s", responseCode, http.StatusText(responseCode))
DefaultType(p, responseCode) ==
    IF Blank(p.Type)
    THEN [p EXCEPT !.Type = Itoa(responseCode) \o <<"-">> \o StatusText(responseCode)]
    ELSE p

\* the pass of Send over the payload: output.go:156-188 without the early return
Validate(p, responseCode, now) ==
    DefaultType(ForceOK(StampDatetime(p, now)), responseCode)

\* mutant: with debug on, the branch that logs the defaulted Type returns
SendReturnsAfterLog(p, rw, responseCode, now, dbg) ==
    IF InvalidResponseCode(responseCode)
    THEN [w |-> rw, err |-> ErrInvalidResponseCode,
          logs |-> IF dbg
                   THEN <<<<"output.Send", "invalid HTTP response code provided",
                            responseCode>>>>
                   ELSE <<>>]
    ELSE IF dbg /\ Blank(p.Type)
    THEN [w |-> rw, err |-> NoErr,
          logs |-> <<<<"output.Send", "payload has not message type", responseCode,
                       Validate(p, responseCode, now).Type>>>>]
    ELSE [w |-> send(Validate(p, responseCode, now), rw, responseCode).w,
          err |-> send(Validate(p, responseCode, now), rw, responseCode).err,
          logs |-> <<>>]

\* func Send.  dbg is the value the read of debug yields.
Send(p, rw, responseCode, now, dbg) ==
    IF InvalidResponseCode(responseCode)
    THEN [w |-> rw, err |-> ErrInvalidResponseCode,
          logs |-> IF dbg
                   THEN <<<<"output.Send", "invalid HTTP response code provided",
                            responseCode>>>>
                   ELSE <<>>]
    ELSE [w |-> send(Validate(p, responseCode, now), rw, responseCode).w,
          err |-> send(Validate(p, responseCode, now), rw, responseCode).err,
          logs |-> IF dbg /\ Blank(p.Type)
                   THEN <<<<"output.Send", "payload has not message type", responseCode,
                            Validate(p, responseCode, now).Type>>>>
                   ELSE <<>>]

----------------------------------------------------------------------------
(* The shorthand entry points. *)

Success(msgType, data, rw, now) ==
    buildAndSend(TRUE, msgType, data, EmptyErrorPayload, rw, StatusOK, now)

InsertOK(id, rw, now) == Success(msgTypeInsertOK, DataInt64(id), rw, now)

InsertOKWithData(data, rw, now) == Success(msgTypeInsertOK, data, rw, now)

UpdateOK(rw, now) == Success(msgTypeUpdateOK, DataNil, rw, now)

UpdateOKWithData(data, rw, now) == Success(msgTypeUpdateOK, data, rw, now)

DataFound(data, rw, now) == Success(msgTypeDataFound, data, rw, now)

\* func Error.  errType.Error() is errType.text.
Error(errType, errMsg, rw, now, dbg) ==
    [w |-> buildAndSend(FALSE, msgTypeError, DataNil,
                        [Error |-> errType.text, Message |-> errMsg],
                        rw, StatusInternalServerError, now).w,
     err |-> buildAndSend(FALSE, msgTypeError, DataNil,
                          [Error |-> errType.text, Message |-> errMsg],
                          rw, StatusInternalServerError, now).err,
     logs |-> IF dbg THEN <<<<"output.Error", errType, errMsg>>>> ELSE <<>>]

ErrorInputInvalid(msg, rw, now, dbg) == Error(errInputInvalid, msg, rw, now, dbg)

ErrorAlreadyExists(msg, rw, now, dbg) == Error(errAlreadyExists, msg, rw, now, dbg)

ErrorWithID(errType, errMsg, id, rw, now, dbg) ==
    [w |-> buildAndSend(FALSE, msgTypeError, DataInt64(id),
                        [Error |-> errType.text, Message |-> errMsg],
                        rw, StatusInternalServerError, now).w,
     err |-> buildAndSend(FALSE, msgTypeError, DataInt64(id),
                          [Error |-> errType.text, Message |-> errMsg],
                          rw, StatusInternalServerError, now).err,
     logs |-> IF dbg THEN <<<<"output.ErrorWithID", errType, errMsg, id>>>> ELSE <<>>]

ErrorInputInvalidWithID(msg, id, rw, now, dbg) ==
    ErrorWithID(errInputInvalid, msg, id, rw, now, dbg)

----------------------------------------------------------------------------
(* The inputs the callers draw from. *)

Times == 0..MaxClock
Ids == 0..MaxId

\* topics: empty, whitespace only, and not blank (with and without blanks around)
TypeInputs == {<<>>, <<" ">>, <<"\t", "\n">>, <<"a">>, <<" ", "a", " ">>}

\* timestamps a caller of Send puts in the Payload
DatetimeInputs == {<<>>, <<" ">>, <<"2","0","2","0">>}

TextInputs == {<<>>, <<"e">>}
MessageInputs == {<<>>, <<"m">>}

ErrorInputs == {errInputInvalid, errAlreadyExists} \cup {[text |-> t] : t \in TextInputs}

DataInputs == {DataNil, DataMap, DataChan} \cup {DataInt64(i) : i \in Ids}

\* response codes: below the valid range (negative, 0, 99), its lowest value,
\* codes with a reason phrase, and a code >= 100 without one
Codes == {0 - 1, 0, 99, StatusContinue, 199, StatusOK, 404, StatusInternalServerError}

Payloads ==
    [OK : BOOLEAN, Type : TypeInputs, Data : DataInputs,
     ErrorData : [Error : TextInputs, Message : MessageInputs],
     Datetime : DatetimeInputs]

\* Payload{}
ZeroPayload ==
    [OK |-> FALSE, Type |-> <<>>, Data |-> DataNil, ErrorData |-> EmptyErrorPayload,
     Datetime |-> <<>>]

\* the record of a call: the entry point and its arguments (those the entry
\* point does not take hold a zero value), the instant time.Now() gave and
\* the value the read of debug gave
Args(op, p, responseCode, msgType, data, errType, errMsg, id, now, dbg) ==
    [op |-> op, p |-> p, responseCode |-> responseCode, msgType |-> msgType,
     data |-> data, errType |-> errType, errMsg |-> errMsg, id |-> id,
     now |-> now, dbg |-> dbg]

NoCall ==
    Args("none", ZeroPayload, 0, <<>>, DataNil, [text |-> <<>>], <<>>, 0, 0, FALSE)

\* The values a read of debug can yield.  debug has no lock (output.go:201-206):
\* a read that races with a Debug call on another goroutine yields either
\* value, a read that does not race yields the value of debug.
DebugReads(race) == IF race THEN BOOLEAN ELSE {debug}

----------------------------------------------------------------------------
(* The state machine.  The server hands every request a fresh                *)
(* http.ResponseWriter, and the handler of the request answers it with one   *)
(* call of one entry point.  Debug may be called at any time.                *)

Init ==
    /\ debug = FALSE
    /\ w = <<>>
    /\ err = NoErr
    /\ logs = <<>>
    /\ call = NoCall

\* the request has not been answered yet
Unanswered == call.op = "none"

\* the result r of an entry point becomes the state of the request
Served(r, rlogs, args) ==
    /\ w' = r.w
    /\ err' = r.err
    /\ logs' = rlogs
    /\ call' = args
    /\ UNCHANGED debug

\* the next request arrives, with its own http.ResponseWriter
NewRequest ==
    /\ call.op # "none"
    /\ w' = <<>>
    /\ err' = NoErr
    /\ logs' = <<>>
    /\ call' = NoCall
    /\ UNCHANGED debug

\* func Debug
Debug(b) ==
    /\ debug' = b
    /\ UNCHANGED <<w, err, logs, call>>

CallSend ==
    /\ Unanswered
    /\ \E p \in Payloads, responseCode \in Codes, now \in Times, race \in BOOLEAN :
               \E dbg \in DebugReads(race) :
                   Served(Send(p, w, responseCode, now, dbg),
                          Send(p, w, responseCode, now, dbg).logs,
                          Args("Send", p, responseCode, <<>>, DataNil, [text |-> <<>>], <<>>, 0,
                               now, dbg))

CallSuccess ==
    /\ Unanswered
    /\ \E msgType \in TypeInputs \cup {msgTypeDataFound}, data \in DataInputs, now \in Times :
               Served(Success(msgType, data, w, now), <<>>,
                      Args("Success", ZeroPayload, 0, msgType, data, [text |-> <<>>], <<>>, 0,
                           now, FALSE))

CallInsertOK ==
    /\ Unanswered
    /\ \E id \in Ids, now \in Times :
               Served(InsertOK(id, w, now), <<>>,
                      Args("InsertOK", ZeroPayload, 0, <<>>, DataNil, [text |-> <<>>], <<>>, id,
                           now, FALSE))

CallInsertOKWithData ==
    /\ Unanswered
    /\ \E data \in DataInputs, now \in Times :
               Served(InsertOKWithData(data, w, now), <<>>,
                      Args("InsertOKWithData", ZeroPayload, 0, <<>>, data, [text |-> <<>>], <<>>,
                           0, now, FALSE))

CallUpdateOK ==
    /\ Unanswered
    /\ \E now \in Times :
               Served(UpdateOK(w, now), <<>>,
                      Args("UpdateOK", ZeroPayload, 0, <<>>, DataNil, [text |-> <<>>], <<>>, 0,
                           now, FALSE))

CallUpdateOKWithData ==
    /\ Unanswered
    /\ \E data \in DataInputs, now \in Times :
               Served(UpdateOKWithData(data, w, now), <<>>,
                      Args("UpdateOKWithData", ZeroPayload, 0, <<>>, data, [text |-> <<>>], <<>>,
                           0, now, FALSE))

CallDataFound ==
    /\ Unanswered
    /\ \E data \in DataInputs, now \in Times :
               Served(DataFound(data, w, now), <<>>,
                      Args("DataFound", ZeroPayload, 0, <<>>, data, [text |-> <<>>], <<>>, 0,
                           now, FALSE))

CallError ==
    /\ Unanswered
    /\ \E errType \in ErrorInputs, errMsg \in MessageInputs, now \in Times,
              race \in BOOLEAN :
               \E dbg \in DebugReads(race) :
                   Served(Error(errType, errMsg, w, now, dbg),
                          Error(errType, errMsg, w, now, dbg).logs,
                          Args("Error", ZeroPayload, 0, <<>>, DataNil, errType, errMsg, 0,
                               now, dbg))

CallErrorInputInvalid ==
    /\ Unanswered
    /\ \E msg \in MessageInputs, now \in Times, race \in BOOLEAN :
               \E dbg \in DebugReads(race) :
                   Served(ErrorInputInvalid(msg, w, now, dbg),
                          ErrorInputInvalid(msg, w, now, dbg).logs,
                          Args("ErrorInputInvalid", ZeroPayload, 0, <<>>, DataNil,
                               [text |-> <<>>], msg, 0, now, dbg))

CallErrorAlreadyExists ==
    /\ Unanswered
    /\ \E msg \in MessageInputs, now \in Times, race \in BOOLEAN :
               \E dbg \in DebugReads(race) :
                   Served(ErrorAlreadyExists(msg, w, now, dbg),
                          ErrorAlreadyExists(msg, w, now, dbg).logs,
                          Args("ErrorAlreadyExists", ZeroPayload, 0, <<>>, DataNil,
                               [text |-> <<>>], msg, 0, now, dbg))

CallErrorWithID ==
    /\ Unanswered
    /\ \E errType \in ErrorInputs, errMsg \in MessageInputs, id \in Ids, now \in Times,
              race \in BOOLEAN :
               \E dbg \in DebugReads(race) :
                   Served(ErrorWithID(errType, errMsg, id, w, now, dbg),
                          ErrorWithID(errType, errMsg, id, w, now, dbg).logs,
                          Args("ErrorWithID", ZeroPayload, 0, <<>>, DataNil, errType, errMsg, id,
                               now, dbg))

CallErrorInputInvalidWithID ==
    /\ Unanswered
    /\ \E msg \in MessageInputs, id \in Ids, now \in Times, race \in BOOLEAN :
               \E dbg \in DebugReads(race) :
                   Served(ErrorInputInvalidWithID(msg, id, w, now, dbg),
                          ErrorInputInvalidWithID(msg, id, w, now, dbg).logs,
                          Args("ErrorInputInvalidWithID", ZeroPayload, 0, <<>>, DataNil,
                               [text |-> <<>>], msg, id, now, dbg))

Next ==
    \/ NewRequest
    \/ \E b \in BOOLEAN : Debug(b)
    \/ CallSend
    \/ CallSuccess
    \/ CallInsertOK
    \/ CallInsertOKWithData
    \/ CallUpdateOK
    \/ CallUpdateOKWithData
    \/ CallDataFound
    \/ CallError
    \/ CallErrorInputInvalid
    \/ CallErrorAlreadyExists
    \/ CallErrorWithID
    \/ CallErrorInputInvalidWithID

Spec == Init /\ [][Next]_vars

----------------------------------------------------------------------------
(* What the transport received, read back from the calls made on it. *)

\* the status codes written, in order
WrittenStatus == SelectSeq(w, LAMBDA c : c.method = "WriteHeader")

\* the byte bodies written, in order
WrittenBodies == SelectSeq(w, LAMBDA c : c.method = "Write")

\* the JSON objects written: the bodies that hold any bytes
WrittenEnvelopes ==
    {w[i].body[1] : i \in {k \in DOMAIN w : w[k].method = "Write" /\ w[k].body # <<>>}}

HasMember(obj, key) == \E i \in DOMAIN obj : obj[i][1] = key

Member(obj, key) == obj[CHOOSE i \in DOMAIN obj : obj[i][1] = key][2]

\* the value of a member that is a string, "" when the member is left out
StringMember(obj, key) == IF HasMember(obj, key) THEN Member(obj, key) ELSE <<>>

NoData == [json |-> "absent", v |-> 0]

\* the fields of the envelope a client reads from a JSON object
Envelope(obj) ==
    [OK |-> Member(obj, "OK"),
     Type |-> Member(obj, "Type"),
     Data |-> IF HasMember(obj, "Data") THEN Member(obj, "Data") ELSE NoData,
     ErrorData |-> [Error |-> StringMember(Member(obj, "ErrorData"), "Error"),
                    Message |-> StringMember(Member(obj, "ErrorData"), "Message")],
     Datetime |-> Member(obj, "Datetime")]

\* what a client reads in Data for the value a caller gave
DataOnWire(data) ==
    CASE data.kind = "nil" -> NoData
      [] data.kind = "int64" -> [json |-> "number", v |-> data.v]
      [] data.kind = "map" -> [json |-> "object", v |-> data.v]

SuccessFamily ==
    {"Success", "InsertOK", "InsertOKWithData", "UpdateOK", "UpdateOKWithData",
     "DataFound"}

ErrorFamily ==
    {"Error", "ErrorInputInvalid", "ErrorAlreadyExists", "ErrorWithID",
     "ErrorInputInvalidWithID"}

\* the data value the caller of a shorthand entry point handed in
GivenData ==
    CASE call.op \in {"Success", "InsertOKWithData", "UpdateOKWithData", "DataFound"}
            -> call.data
      [] call.op \in {"InsertOK", "ErrorWithID", "ErrorInputInvalidWithID"}
            -> DataInt64(call.id)
      [] OTHER -> DataNil

\* the topic a Success-family call names
GivenType ==
    CASE call.op = "Success" -> call.msgType
      [] call.op \in {"InsertOK", "InsertOKWithData"} -> <<"i","n","s","e","r","t","O","K">>
      [] call.op \in {"UpdateOK", "UpdateOKWithData"} -> <<"u","p","d","a","t","e","O","K">>
      [] OTHER -> <<"d","a","t","a","F","o","u","n","d">>

\* the text of the error an Error-family call reports
GivenErrorText ==
    CASE call.op \in {"Error", "ErrorWithID"} -> call.errType.text
      [] call.op = "ErrorAlreadyExists"
            -> <<"a","l","r","e","a","d","y"," ","e","x","i","s","t","s">>
      [] OTHER -> <<"i","n","p","u","t"," ","v","a","l","i","d","a","t","i","o","n",
                    " ","e","r","r","o","r">>

----------------------------------------------------------------------------
(* The claims. *)

\* C1: Send with a responseCode below 100 (99, 0, negative) returns
\* ErrInvalidResponseCode and makes no call on the transport: no header set,
\* no status code written, no body written.
C1_InvalidCodeWritesNothing ==
    (call.op = "Send" /\ call.responseCode < 100)
        => (err = ErrInvalidResponseCode /\ w = <<>>)

C1_Witness ==
    /\ call.op = "Send"
    /\ call.responseCode = 99
    /\ err = ErrInvalidResponseCode
    /\ w = <<>>

\* C2: in every envelope written to a transport, whichever entry point wrote
\* it, a non-empty ErrorData implies OK = false.
C2_ErrorDataImpliesNotOK ==
    \A obj \in WrittenEnvelopes :
        Envelope(obj).ErrorData # [Error |-> <<>>, Message |-> <<>>]
            => Envelope(obj).OK = FALSE

\* Send was handed OK = true with a non-empty ErrorData and wrote OK = false
C2_Witness ==
    /\ call.op = "Send"
    /\ call.p.OK = TRUE
    /\ call.p.ErrorData.Error # <<>>
    /\ \E obj \in WrittenEnvelopes : Envelope(obj).OK = FALSE

\* C3: the Type of every envelope written to a transport is not blank,
\* whichever entry point wrote it and whatever topic the caller gave.
C3_TypeNeverBlank ==
    \A obj \in WrittenEnvelopes : TrimSpace(Envelope(obj).Type) # <<>>

\* C4: an operation that writes a response first sets the Content-Type header
\* to "application/json; charset=UTF-8", then writes the status code, then
\* writes the body.
C4_HeaderThenStatusThenBody ==
    w # <<>> =>
        /\ Len(w) = 3
        /\ w[1].method = "Header.Set"
        /\ w[1].key = "Content-Type"
        /\ w[1].value = "application/json; charset=UTF-8"
        /\ w[2].method = "WriteHeader"
        /\ w[3].method = "Write"

\* C5 as stated: an implicit entry point returns no error, whatever its input.
C5_ImplicitNeverFails ==
    call.op \in SuccessFamily \cup ErrorFamily => err = NoErr

\* C5 as amended: an implicit entry point returns an error exactly when the data
\* value it was handed cannot be serialized, and the error is json.Marshal's.
C5_ImplicitFailsOnlyOnMarshal ==
    call.op \in SuccessFamily \cup ErrorFamily =>
        IF GivenData.kind = "chan" THEN err = MarshalErr ELSE err = NoErr

C5_Witness ==
    /\ call.op = "DataFound"
    /\ call.data.kind = "chan"
    /\ err = MarshalErr
    /\ WrittenStatus # <<>>

\* C6: the status code and the envelope of a shorthand operation are fixed by
\* the entry point.  A Success-family call writes status 200 and an envelope
\* with OK = true, the given Type and Data and an empty ErrorData; an
\* Error-family call writes status 500 and an envelope with OK = false, Type
\* "error", ErrorData holding the error's text and the message, and no Data but
\* the id of the ...WithID variants.  (For a data value that cannot be
\* serialized the body written holds no bytes, so no envelope.)
C6_ShorthandFixed ==
    /\ call.op \in SuccessFamily =>
        /\ Len(WrittenStatus) = 1 /\ WrittenStatus[1].code = 200
        /\ Len(WrittenBodies) = 1
        /\ IF GivenData.kind = "chan"
           THEN WrittenBodies[1].body = <<>>
           ELSE /\ WrittenBodies[1].body # <<>>
                /\ \A obj \in WrittenEnvelopes :
                    /\ Envelope(obj).OK = TRUE
                    /\ Envelope(obj).Type = GivenType
                    /\ Envelope(obj).Data = DataOnWire(GivenData)
                    /\ Envelope(obj).ErrorData = [Error |-> <<>>, Message |-> <<>>]
    /\ call.op \in ErrorFamily =>
        /\ Len(WrittenStatus) = 1 /\ WrittenStatus[1].code = 500
        /\ Len(WrittenBodies) = 1
        /\ WrittenBodies[1].body # <<>>
        /\ \A obj \in WrittenEnvelopes :
            /\ Envelope(obj).OK = FALSE
            /\ Envelope(obj).Type = <<"e","r","r","o","r">>
            /\ Envelope(obj).Data = DataOnWire(GivenData)
            /\ Envelope(obj).ErrorData =
                    [Error |-> GivenErrorText, Message |-> call.errMsg]

\* ErrorInputInvalidWithID answered with status 500, the id in Data and the
\* error details
C6_Witness ==
    /\ call.op = "ErrorInputInvalidWithID"
    /\ call.id = 1
    /\ call.errMsg # <<>>
    /\ \E obj \in WrittenEnvelopes :
        /\ Envelope(obj).Data = [json |-> "number", v |-> 1]
        /\ Envelope(obj).ErrorData.Message = call.errMsg
    /\ Len(WrittenStatus) = 1 /\ WrittenStatus[1].code = 500

\* C7: when Send is called with a blank Type and a responseCode of at least
\* 100, the Type written is the decimal code, a hyphen and the reason phrase of
\* the code ("404-Not Found" for 404); when the Type is not blank, the Type
\* written is the caller's.
C7_TypeDefaulted ==
    (call.op = "Send" /\ call.responseCode >= 100 /\ call.p.Data.kind # "chan") =>
        /\ WrittenEnvelopes # {}
        /\ \A obj \in WrittenEnvelopes :
            IF TrimSpace(call.p.Type) = <<>>
            THEN /\ Envelope(obj).Type =
                        Itoa(call.responseCode) \o <<"-">> \o StatusText(call.responseCode)
                 /\ call.responseCode = 404 =>
                        Envelope(obj).Type =
                            <<"4","0","4","-","N","o","t"," ","F","o","u","n","d">>
            ELSE Envelope(obj).Type = call.p.Type

C7_Witness ==
    /\ call.op = "Send"
    /\ call.responseCode = 404
    /\ call.p.Type = <<"\t", "\n">>
    /\ \E obj \in WrittenEnvelopes :
        Envelope(obj).Type = <<"4","0","4","-","N","o","t"," ","F","o","u","n","d">>

\* C8: the validation/defaulting pass of Send is idempotent: for a responseCode
\* of at least 100, applying the pass, at any instant, to the envelope that the
\* pass of the call produced (the one whose serialization the call wrote)
\* changes no field of it.
C8_ValidateIdempotent ==
    (call.op = "Send" /\ call.responseCode >= 100) =>
        /\ Len(WrittenBodies) = 1
        /\ WrittenBodies[1].body =
                Marshal(Validate(call.p, call.responseCode, call.now)).j
        /\ \A again \in Times :
                Validate(Validate(call.p, call.responseCode, call.now),
                         call.responseCode, again)
                    = Validate(call.p, call.responseCode, call.now)

\* a call whose pass changed Datetime, OK and Type
C8_Witness ==
    /\ call.op = "Send"
    /\ call.responseCode >= 100
    /\ call.p.Datetime = <<" ">>
    /\ call.p.Type = <<>>
    /\ call.p.OK = TRUE
    /\ call.p.ErrorData.Message # <<>>
    /\ \E obj \in WrittenEnvelopes :
        /\ Envelope(obj).OK = FALSE
        /\ Envelope(obj).Datetime = FormatTime(call.now)

\* C9: the debug toggle is a side channel: whatever value the entry point read
\* from debug, the calls made on the transport and the error returned are those
\* of the same call with debug off.
C9_DebugSideChannel ==
    /\ call.op = "Send" =>
        /\ w = Send(call.p, <<>>, call.responseCode, call.now, FALSE).w
        /\ err = Send(call.p, <<>>, call.responseCode, call.now, FALSE).err
    /\ call.op = "Error" =>
        /\ w = Error(call.errType, call.errMsg, <<>>, call.now, FALSE).w
        /\ err = Error(call.errType, call.errMsg, <<>>, call.now, FALSE).err
    /\ call.op = "ErrorInputInvalid" =>
        /\ w = ErrorInputInvalid(call.errMsg, <<>>, call.now, FALSE).w
        /\ err = ErrorInputInvalid(call.errMsg, <<>>, call.now, FALSE).err
    /\ call.op = "ErrorAlreadyExists" =>
        /\ w = ErrorAlreadyExists(call.errMsg, <<>>, call.now, FALSE).w
        /\ err = ErrorAlreadyExists(call.errMsg, <<>>, call.now, FALSE).err
    /\ call.op = "ErrorWithID" =>
        /\ w = ErrorWithID(call.errType, call.errMsg, call.id, <<>>, call.now, FALSE).w
        /\ err = ErrorWithID(call.errType, call.errMsg, call.id, <<>>, call.now, FALSE).err
    /\ call.op = "ErrorInputInvalidWithID" =>
        /\ w = ErrorInputInvalidWithID(call.errMsg, call.id, <<>>, call.now, FALSE).w
        /\ err = ErrorInputInvalidWithID(call.errMsg, call.id, <<>>, call.now, FALSE).err

\* Send read debug = true in a race with Debug(false), logged the defaulted
\* Type and wrote the response
C9_Witness ==
    /\ call.op = "Send"
    /\ call.dbg = TRUE
    /\ debug = FALSE
    /\ logs # <<>>
    /\ WrittenEnvelopes # {}

\* C10: Send fills gaps and overwrites nothing the caller gave but OK: for a
\* responseCode of at least 100 the envelope written has the caller's Data and
\* ErrorData, the caller's Type when it is not blank, the caller's Datetime
\* when it is not blank, and the caller's OK when ErrorData is empty.
C10_SendOnlyFillsGaps ==
    (call.op = "Send" /\ call.responseCode >= 100 /\ call.p.Data.kind # "chan") =>
        /\ WrittenEnvelopes # {}
        /\ \A obj \in WrittenEnvelopes :
            /\ Envelope(obj).Data = DataOnWire(call.p.Data)
            /\ Envelope(obj).ErrorData = call.p.ErrorData
            /\ TrimSpace(call.p.Type) # <<>> => Envelope(obj).Type = call.p.Type
            /\ TrimSpace(call.p.Datetime) # <<>> =>
                    Envelope(obj).Datetime = call.p.Datetime
            /\ call.p.ErrorData = [Error |-> <<>>, Message |-> <<>>] =>
                    Envelope(obj).OK = call.p.OK

\* the caller gave a Type with blanks around it, a Datetime, Data and OK = true
C10_Witness ==
    /\ call.op = "Send"
    /\ call.responseCode = 199
    /\ call.p.Type = <<" ", "a", " ">>
    /\ call.p.Datetime = <<"2","0","2","0">>
    /\ call.p.OK = TRUE
    /\ call.p.Data.kind = "map"
    /\ \E obj \in WrittenEnvelopes :
        /\ Envelope(obj).Type = <<" ", "a", " ">>
        /\ Envelope(obj).OK = TRUE

====
